---- MODULE Spec2Model ----
(***************************************************************************)
(* Model of the datamart_analytics repository:                             *)
(*   - the merge/upsert engine of SnowparkConnector                        *)
(*     (src/connector/snowpark_connector.py), and                          *)
(*   - the CSV driven test framework                                       *)
(*     (src/test_framework_run.py, src/tools/test_framework_helper.py),    *)
(*     as a whole run and as single calls of its functions (rendering of   *)
(*     a row, SET statements of a row, parsing of a template file).        *)
(* The Snowflake engine is an external collaborator: its answers (a        *)
(* statement succeeds, raises, returns rows) are nondeterministic choices. *)
(***************************************************************************)
EXTENDS Integers, Sequences, FiniteSets, TLC

VARIABLES
    \* ---- merge/upsert engine ----
    session,        \* SnowparkConnector.session: "live" | "none"
    tables,         \* names of the tables that exist in the database
    schema,         \* columns of the source and of the target relation
    args,           \* arguments of the upsert call in progress
    upc,            \* position inside SnowparkConnector.upsert
    ops,            \* engine operations issued by the call, in order
    merge_sql,      \* tokens of the MERGE statement handed to the engine
    merge_outcome,  \* what the engine did with the MERGE statement
    result,         \* value upsert returns (NoResult is Python's None)
    raised,         \* exception leaving upsert: [type, msg], or NoExc
    \* ---- test framework ----
    entry,          \* who drives the test framework functions
    tpc,            \* position inside the driver
    csv_exists,     \* os.path.exists(specification_csv_path)
    csv,            \* rows of the specification CSV
    df,             \* enabled rows (load_test_case_cross_reference_table)
    validated_rows, \* rows returned by map_query_and_validate_test_case_data
    result_list,    \* values returned by log_validated_row, in call order
    exec_log,       \* test queries handed to the engine, in order
    logged,         \* TEST_RESULTS entries written to the log
    stages,         \* pipeline stages that have run, in order
    texc,           \* exception leaving the driver, or NoExc
    \* ---- single calls of the builder, rendering and parsing functions ----
    call,           \* the function called and its arguments
    ret,            \* what the call produced
    fdone           \* TRUE once the call has exited

upsertVars == <<session, tables, schema, args, upc, ops, merge_sql,
                merge_outcome, result, raised>>
testVars == <<entry, tpc, csv_exists, csv, df, validated_rows, result_list,
              exec_log, logged, stages, texc>>
fnVars == <<call, ret, fdone>>
vars == <<upsertVars, testVars, fnVars>>

\* Python's None for an optional string argument.
NoneStr == "<None>"
\* Python's None for an optional list argument / a given list.
NoneList == [none |-> TRUE, val |-> <<>>]
Some(l) == [none |-> FALSE, val |-> l]
\* No exception / no return value.
NoExc == [type |-> "none", msg |-> ""]
Exc(t, m) == [type |-> t, msg |-> m]
NoResult == [status |-> "None"]

RECURSIVE SelectSeqIn(_, _)
\* [col for col in s if col in keep]
SelectSeqIn(s, keep) ==
    IF s = <<>> THEN <<>>
    ELSE IF Head(s) \in keep THEN <<Head(s)>> \o SelectSeqIn(Tail(s), keep)
         ELSE SelectSeqIn(Tail(s), keep)

Range(s) == {s[i] : i \in DOMAIN s}

RECURSIVE Join(_, _)
\* sep.join(parts), as a token sequence: the parts separated by the token sep
Join(parts, sep) ==
    IF parts = <<>> THEN <<>>
    ELSE IF Len(parts) = 1 THEN <<parts[1]>>
         ELSE <<parts[1], sep>> \o Join(Tail(parts), sep)

Count(tok, s) == Cardinality({i \in DOMAIN s : s[i] = tok})

(***************************************************************************)
(* SnowparkConnector._build_merge_sql.  The statement is a sequence of     *)
(* tokens; every literal piece of the f-strings is one token.              *)
(***************************************************************************)
\* the join terms in the opposite order
JoinConditions_Reversed(join_keys) ==
    [i \in DOMAIN join_keys |->
        "target." \o join_keys[Len(join_keys) + 1 - i]
        \o " = source." \o join_keys[Len(join_keys) + 1 - i]]

JoinConditions(join_keys) ==
    [i \in DOMAIN join_keys |->
        "target." \o join_keys[i] \o " = source." \o join_keys[i]]

UpdateAssignments(update_columns) ==
    [i \in DOMAIN update_columns |->
        update_columns[i] \o " = source." \o update_columns[i]]

InsertValues(insert_columns) ==
    [i \in DOMAIN insert_columns |-> "source." \o insert_columns[i]]

DeleteConditions(delete_columns) ==
    [i \in DOMAIN delete_columns |-> "source." \o delete_columns[i] \o " IS NULL"]

MergeHeader(source_table_name, target_table_name, join_keys) ==
    <<"MERGE INTO", target_table_name, "AS target",
      "USING", source_table_name, "AS source", "ON">>
    \o Join(JoinConditions(join_keys), "AND")

WhenMatchedClause(update_columns, when_matched_condition, use_when_matching_condition) ==
    IF use_when_matching_condition
    THEN <<"WHEN MATCHED">>
         \o (IF when_matched_condition # NoneStr
             THEN <<"AND", when_matched_condition>> ELSE <<>>)
         \o <<"THEN UPDATE SET">>
         \o Join(UpdateAssignments(update_columns), ",")
    ELSE <<>>

WhenNotMatchedClause(insert_columns, when_not_matched_condition, use_when_not_matching_condition) ==
    IF use_when_not_matching_condition
    THEN <<"WHEN NOT MATCHED">>
         \* line 986: the f-string has no braces, the text is literal
         \o (IF when_not_matched_condition # NoneStr
             THEN <<"AND", "(", "when_not_matched_condition", ")">> ELSE <<>>)
         \o <<"THEN INSERT", "(">> \o Join(insert_columns, ",") \o <<")">>
         \o <<"VALUES", "(">> \o Join(InsertValues(insert_columns), ",") \o <<")">>
    ELSE <<>>

DeleteClause(delete_columns) ==
    IF delete_columns # <<>>
    THEN <<"WHEN NOT MATCHED BY SOURCE", "AND", "(">>
         \o Join(DeleteConditions(delete_columns), "OR")
         \o <<")", ")", "THEN DELETE">>
    ELSE <<>>

build_merge_sql(source_table_name, target_table_name, join_keys, update_columns, insert_columns, delete_columns, when_matched_condition, when_not_matched_condition, use_when_matching_condition, use_when_not_matching_condition) ==
    MergeHeader(source_table_name, target_table_name, join_keys)
    \o WhenMatchedClause(update_columns, when_matched_condition,
                         use_when_matching_condition)
    \o WhenNotMatchedClause(insert_columns, when_not_matched_condition,
                            use_when_not_matching_condition)
    \o DeleteClause(delete_columns)

(***************************************************************************)
(* SnowparkConnector._upsert_via_sql: the column defaults.                 *)
(***************************************************************************)
\* a default that keeps the join keys
DefaultUpdateColumns_WithKeys(source_columns, target_columns, join_keys) ==
    SelectSeqIn(source_columns, Range(target_columns))

DefaultUpdateColumns(source_columns, target_columns, join_keys) ==
    SelectSeqIn(source_columns, Range(target_columns) \ Range(join_keys))

DefaultInsertColumns(source_columns, target_columns) ==
    SelectSeqIn(source_columns, Range(target_columns))

DefaultDeleteColumns(source_columns, target_columns) ==
    SelectSeqIn(source_columns, Range(target_columns))

EffectiveUpdateColumns(a, sch) ==
    IF a.update_columns.none
    THEN DefaultUpdateColumns(sch.source, sch.target, a.join_keys)
    ELSE a.update_columns.val

EffectiveInsertColumns(a, sch) ==
    IF a.insert_columns.none
    THEN DefaultInsertColumns(sch.source, sch.target)
    ELSE a.insert_columns.val

EffectiveDeleteColumns(a, sch) ==
    IF a.delete_columns.none
    THEN DefaultDeleteColumns(sch.source, sch.target)
    ELSE a.delete_columns.val

\* The statement _upsert_via_sql builds for the call a, reading from src.
MergeSqlOf(a, sch, src) ==
    build_merge_sql(src, a.target_table_name, a.join_keys,
                    EffectiveUpdateColumns(a, sch), EffectiveInsertColumns(a, sch),
                    EffectiveDeleteColumns(a, sch), a.when_matched_condition,
                    a.when_not_matched_condition, a.use_when_matching_condition,
                    a.use_when_not_matching_condition)

(***************************************************************************)
(* The upsert call: its inputs.                                            *)
(***************************************************************************)
TargetTable == "TGT"
SourceTable == "SRC"
\* f"{target_table_name}_TRANSIENT_{uuid4}": a name no other table has
TransientName(target_table_name) == target_table_name \o "_TRANSIENT_" \o "uuid4"

SourceSchemas == {<<"A", "K">>, <<"A", "C", "K">>, <<"K">>, <<"A", "B", "C", "K">>}
TargetSchemas == {<<"A", "K">>, <<"K", "B", "A">>, <<"A", "B", "K">>}

UpsertArgs ==
    [target_table_name : {TargetTable},
     source_table_name : {NoneStr, SourceTable},
     join_keys : {<<"K">>, <<"K", "A">>},
     update_columns : {NoneList, Some(<<"A">>)},
     insert_columns : {NoneList, Some(<<"K", "A">>)},
     delete_columns : {NoneList, Some(<<>>), Some(<<"A">>)},
     when_matched_condition : {NoneStr, "target.A <> source.A"},
     when_not_matched_condition : {NoneStr, "source.A IS NOT NULL"},
     use_when_matching_condition : BOOLEAN,
     use_when_not_matching_condition : BOOLEAN]

NoArgs == [target_table_name |-> NoneStr]

\* Result rows of a MERGE: the engine's counters, each of which may be absent.
MergeRows ==
    { ("number of rows inserted" :> 1) @@ ("number of rows updated" :> 2)
        @@ ("number of rows deleted" :> 0),
      ("number of rows inserted" :> 3) }

\* What session.sql(merge_sql).collect() does.
MergeOutcomes ==
    {[kind |-> "raise", rows |-> <<>>], [kind |-> "empty", rows |-> <<>>]}
    \cup {[kind |-> "rows", rows |-> <<r>>] : r \in MergeRows}

NoOutcome == [kind |-> "none", rows |-> <<>>]

\* What dataframe.write.save_as_table does: the table is created, or the
\* write raises, leaving the table behind or not.
SaveOutcomes == {"created", "raised", "raised_table_left"}

Counter(row, name) == IF name \in DOMAIN row THEN row[name] ELSE 0

\* SnowparkConnector.table_exists: session.table(name).collect() succeeds
table_exists(table_name) == table_name \in tables

\* The source relation of the MERGE (upsert, lines 665-669).
MergeSource(a) ==
    IF a.source_table_name = NoneStr
    THEN TransientName(a.target_table_name) ELSE a.source_table_name

(***************************************************************************)
(* SnowparkConnector._upsert_via_sql, from the statement's execution on:   *)
(* the outcome [result, exc] of the call for the engine's answer out.      *)
(***************************************************************************)
UpsertResultOf(a, sch, src, row) ==
    [status |-> "SUCCESS",
     source_table |-> src,
     target_table |-> a.target_table_name,
     update_columns |-> EffectiveUpdateColumns(a, sch),
     insert_columns |-> EffectiveInsertColumns(a, sch),
     delete_columns |-> EffectiveDeleteColumns(a, sch),
     records_inserted |-> Counter(row, "number of rows inserted"),
     records_updated |-> Counter(row, "number of rows updated"),
     records_deleted |-> Counter(row, "number of rows deleted"),
     method |-> "sql_merge"]

upsert_via_sql(a, sch, src, out) ==
    CASE out.kind = "raise" ->
            [result |-> NoResult, exc |-> Exc("SnowparkSQLException", "engine error")]
      [] out.kind = "empty" ->
            [result |-> NoResult,
             exc |-> Exc("SnowflakeUpsertException",
                         "Merge operation did not return expected result")]
      [] OTHER ->
            [result |-> UpsertResultOf(a, sch, src, out.rows[1]), exc |-> NoExc]

\* A plausible other version: the failure of the statement is passed on
\* as SnowflakeUpsertException.
upsert_via_temp_table_raising(sql) ==
    IF sql.exc = NoExc THEN sql
    ELSE [result |-> NoResult, exc |-> Exc("SnowflakeUpsertException", sql.exc.msg)]

\* SnowparkConnector._upsert_via_temp_table: every exception of
\* _upsert_via_sql is logged and dropped, and result stays None.
upsert_via_temp_table(sql) ==
    IF sql.exc = NoExc THEN sql ELSE [result |-> NoResult, exc |-> NoExc]

(***************************************************************************)
(* SnowparkConnector.upsert, one action per engine round trip.             *)
(***************************************************************************)
InitUpsert ==
    /\ session \in {"live", "none"}
    /\ tables \in SUBSET {TargetTable, SourceTable}
    /\ schema \in [source : SourceSchemas, target : TargetSchemas]
    /\ args = NoArgs
    /\ upc = "idle"
    /\ ops = <<>>
    /\ merge_sql = <<>>
    /\ merge_outcome = NoOutcome
    /\ result = NoResult
    /\ raised = NoExc

\* lines 645-652: the arguments; no session, no call
UpsertCall ==
    /\ upc = "idle"
    /\ \E a \in UpsertArgs : args' = a
    /\ IF session = "none"
       THEN /\ raised' = Exc("SnowflakeSessionException", "Session is not initialized")
            /\ upc' = "done"
       ELSE /\ raised' = raised
            /\ upc' = "precheck"
    /\ UNCHANGED <<session, tables, schema, ops, merge_sql, merge_outcome, result>>
    /\ UNCHANGED <<testVars, fnVars>>

\* A plausible other version: the target is not checked.
UpsertPreCheck_Unchecked ==
    /\ upc = "precheck"
    /\ ops' = Append(ops, "table_exists(target)")
    /\ upc' = "stage"
    /\ UNCHANGED <<session, tables, schema, args, merge_sql, merge_outcome, result, raised>>
    /\ UNCHANGED <<testVars, fnVars>>

\* lines 653-655
UpsertPreCheck ==
    /\ upc = "precheck"
    /\ ops' = Append(ops, "table_exists(target)")
    /\ IF table_exists(args.target_table_name)
       THEN /\ upc' = "stage"
            /\ raised' = raised
       ELSE /\ raised' = Exc("SnowflakeTableException", "Target table does not exist")
            /\ upc' = "finally"
    /\ UNCHANGED <<session, tables, schema, args, merge_sql, merge_outcome, result>>
    /\ UNCHANGED <<testVars, fnVars>>

\* lines 656-665, save_as_table lines 466-509
UpsertStage ==
    /\ upc = "stage"
    /\ IF args.source_table_name = NoneStr
       THEN \E out \in SaveOutcomes :
              /\ ops' = Append(ops, "save_as_table(transient)")
              /\ tables' = IF out = "raised" THEN tables
                           ELSE tables \cup {TransientName(args.target_table_name)}
              /\ IF out = "created"
                 THEN /\ upc' = "merge"
                      /\ raised' = raised
                 ELSE /\ upc' = "finally"
                      /\ raised' = Exc("SnowflakeTableException",
                                       "Failed to save DataFrame as table")
       ELSE /\ upc' = "merge"
            /\ UNCHANGED <<ops, tables, raised>>
    /\ UNCHANGED <<session, schema, args, merge_sql, merge_outcome, result>>
    /\ UNCHANGED <<testVars, fnVars>>

\* lines 666-679: _upsert_via_temp_table (742-796) around _upsert_via_sql
\* (798-917).  Reading the columns of a relation that does not exist raises.
UpsertMerge ==
    /\ upc = "merge"
    /\ LET src == MergeSource(args) IN
       IF table_exists(src) /\ table_exists(args.target_table_name)
       THEN \E out \in MergeOutcomes :
              LET got == upsert_via_temp_table(upsert_via_sql(args, schema, src, out)) IN
              /\ ops' = ops \o <<"columns", "merge">>
              /\ merge_sql' = MergeSqlOf(args, schema, src)
              /\ merge_outcome' = out
              /\ result' = got.result
              /\ raised' = got.exc
       ELSE LET got == upsert_via_temp_table(
                          [result |-> NoResult,
                           exc |-> Exc("SnowparkSQLException", "object does not exist")]) IN
            /\ ops' = Append(ops, "columns")
            /\ result' = got.result
            /\ raised' = got.exc
            /\ UNCHANGED <<merge_sql, merge_outcome>>
    /\ upc' = "finally"
    /\ UNCHANGED <<session, tables, schema, args>>
    /\ UNCHANGED <<testVars, fnVars>>

\* A plausible other version: the staging table is dropped at the end of
\* the try block, so only when nothing was raised and a result came back.
UpsertFinally_OnSuccessOnly ==
    /\ upc = "finally"
    /\ IF raised = NoExc /\ result # NoResult
       THEN /\ ops' = Append(ops, "drop(transient)")
            /\ tables' = tables \ {TransientName(args.target_table_name)}
       ELSE UNCHANGED <<ops, tables>>
    /\ upc' = "done"
    /\ UNCHANGED <<session, schema, args, merge_sql, merge_outcome, result, raised>>
    /\ UNCHANGED <<testVars, fnVars>>

\* lines 680-688: the exception, if any, is raised again after the finally
\* block has dropped the staging table
UpsertFinally ==
    /\ upc = "finally"
    /\ IF table_exists(TransientName(args.target_table_name))
       THEN /\ ops' = ops \o <<"table_exists(transient)", "drop(transient)">>
            /\ tables' = tables \ {TransientName(args.target_table_name)}
       ELSE /\ ops' = Append(ops, "table_exists(transient)")
            /\ tables' = tables
    /\ upc' = "done"
    /\ UNCHANGED <<session, schema, args, merge_sql, merge_outcome, result, raised>>
    /\ UNCHANGED <<testVars, fnVars>>

\* upsert has exited: by raising, or by returning result
UpsertExited == upc = "done"
UpsertRaised == UpsertExited /\ raised # NoExc
UpsertReturned == UpsertExited /\ raised = NoExc

(***************************************************************************)
(* The test framework.  A CSV row is described by what the code finds in   *)
(* it: whether it is enabled, the first structural check of                *)
(* map_query_and_validate_test_case_data it fails (if any), and what       *)
(* executing its rendered query does.                                      *)
(***************************************************************************)
MaxRows == 3
MaxResults == 6

\* The structural checks, in the order the code makes them.
Defects ==
    {"no_query_file_path", "unparsable_sql_file", "no_templates_in_file",
     "no_test_case_name", "no_template_for_name", "no_numeric_column",
     "schema_invalid"}

\* Result sets of a test query.
ResultSets ==
    { <<>>,
      <<("err_count" :> 0)>>,
      <<("err_count" :> 5)>>,
      <<("err_count" :> 3), ("err_count" :> 0)>>,
      <<("id" :> 1), ("id" :> 2)>> }

\* What executing a row does (log_validated_row, the try block of lines
\* 536-562): an exception, raised on entering the connector, by a SET
\* statement or by the query (execute_query and execute_multiple_statements
\* turn an engine error into None, which line 562 raises as an exception),
\* or the collected result set.
ExecOutcomes ==
    {[kind |-> "raise", rows |-> <<>>, msg |-> "SQL compilation error"]}
    \cup {[kind |-> "rows", rows |-> rs, msg |-> ""] : rs \in ResultSets}

NotRun == [kind |-> "raise", rows |-> <<>>, msg |-> "SQL compilation error"]

\* A row that is disabled or defective is never executed: one outcome.
CsvRows ==
    {[enabled |-> FALSE, defect |-> "none", outcome |-> NotRun]}
    \cup {[enabled |-> TRUE, defect |-> d, outcome |-> NotRun] : d \in Defects}
    \cup {[enabled |-> TRUE, defect |-> "none", outcome |-> o] : o \in ExecOutcomes}

EnabledRows == {r \in CsvRows : r.enabled}

SeqsUpTo(S, n) == UNION {[1..k -> S] : k \in 0..n}

\* The values log_validated_row returns: None, or the tuple
\* (table_name, test_case_name, status, failure_count).
NoneResult == [kind |-> "None"]
ResultTuple(test_case, status, failure_count) ==
    [kind |-> "tuple", test_case |-> test_case, status |-> status,
     failure_count |-> failure_count]

DirectResults == {NoneResult, ResultTuple(0, "PASS", 0), ResultTuple(0, "FAIL", 5)}

\* load_test_case_cross_reference_table: df[df["is_enabled"] == True]
load_test_case_cross_reference_table(rows) == SelectSeq(rows, LAMBDA r : r.enabled)

\* The exception map_query_and_validate_test_case_data raises for a defect.
DefectException(d) ==
    CASE d = "no_query_file_path" ->
            Exc("SQLFileNotFoundException", "query_file_path is missing for row")
      [] d = "unparsable_sql_file" ->
            Exc("TestCaseParseException", "Error parsing SQL file")
      [] d = "no_templates_in_file" ->
            Exc("SQLTemplateNotFoundException", "No SQL templates found in file")
      [] d = "no_test_case_name" ->
            Exc("ValueError", "test_case_name is required in row_dict")
      [] d = "no_template_for_name" ->
            Exc("ValueError", "No SQL template found for test_case_name")
      [] d = "no_numeric_column" ->
            Exc("TestCaseValidationException", "requires at least one numeric column")
      [] OTHER ->
            Exc("TestCaseValidationException", "Validation failed for row")

\* str(x).upper() on the status values
Upper(status) ==
    CASE status \in {"fail", "Fail", "FAIL"} -> "FAIL"
      [] status \in {"pass", "Pass", "PASS"} -> "PASS"
      [] OTHER -> status

\* A plausible other version: the failure count is always the row count.
FailureCount_RowCount(rows) == Len(rows)

\* log_validated_row, lines 584-608: failure count and status of a
\* collected result set
FailureCount(rows) ==
    IF rows = <<>> THEN 0
    ELSE IF "err_count" \in DOMAIN rows[1] THEN rows[1]["err_count"] ELSE Len(rows)

Status(rows) == IF FailureCount(rows) > 0 THEN "FAIL" ELSE "PASS"

\* A plausible other version: an error comes back as an ERROR tuple.
log_validated_row_error_tuple(i, out) ==
    IF out.kind = "raise"
    THEN [returned |-> ResultTuple(i, "ERROR", 0),
          entry |-> [test_case |-> i, status |-> "ERROR", failure_count |-> "None",
                     details |-> out.msg]]
    ELSE [returned |-> ResultTuple(i, Status(out.rows), FailureCount(out.rows)),
          entry |-> [test_case |-> i, status |-> Status(out.rows),
                     failure_count |-> FailureCount(out.rows), details |-> "rows"]]

\* log_validated_row for validated row number i whose execution does out:
\* the value returned and the TEST_RESULTS entry logged
log_validated_row(i, out) ==
    IF out.kind = "raise"
    THEN [returned |-> NoneResult,
          entry |-> [test_case |-> i, status |-> "ERROR", failure_count |-> "None",
                     details |-> out.msg]]
    ELSE [returned |-> ResultTuple(i, Status(out.rows), FailureCount(out.rows)),
          entry |-> [test_case |-> i, status |-> Status(out.rows),
                     failure_count |-> FailureCount(out.rows), details |-> "rows"]]

\* A plausible other version: a row that errored counts as failed.
FailedRows_CountingErrors(results) ==
    SelectSeq(results, LAMBDA r : r = NoneResult \/ Upper(r.status) = "FAIL")

\* analyze_and_log_results, lines 646-650
FailedRows(results) ==
    SelectSeq(results, LAMBDA r : r # NoneResult /\ Upper(r.status) = "FAIL")

\* analyze_and_log_results: the exception it raises, or NoExc
analyze_and_log_results(results) ==
    IF results = <<>> THEN Exc("NoTestResultsException", "No test results to analyze.")
    ELSE IF FailedRows(results) = <<>> THEN NoExc
    ELSE Exc("OneOrMoreTestCasesFailedException", "One or more test cases failed.")

\* a load_test that lets the exception through as it is
Wrapped_Unwrapped(e) == e

\* load_test, lines 69-71: every exception leaves as LoadTestException
\* carrying the message of the cause
Wrapped(e) == IF e = NoExc THEN NoExc ELSE Exc("LoadTestException", e.msg)

\* A driver raises what the function raised; load_test wraps it.
Leaves(e) == IF entry = "load_test" THEN Wrapped(e) ELSE e

\* entry says who calls the functions of the framework:
\*   "load_test"  load_test of test_framework_run.py, as written;
\*   "helpers"    a caller of the helper functions that passes all four
\*                arguments of map_query_and_validate_test_case_data, then
\*                calls log_validated_row on every returned row in order
\*                and analyze_and_log_results on the collected results;
\*   "analyze"    a caller of analyze_and_log_results alone.
InitTest ==
    /\ entry \in {"load_test", "helpers", "analyze"}
    /\ csv_exists \in (IF entry = "load_test" THEN BOOLEAN ELSE {FALSE})
    /\ csv \in (IF entry = "load_test" /\ csv_exists THEN SeqsUpTo(CsvRows, MaxRows) ELSE {<<>>})
    /\ df \in (IF entry = "helpers" THEN SeqsUpTo(EnabledRows, MaxRows) ELSE {<<>>})
    /\ result_list \in (IF entry = "analyze" THEN SeqsUpTo(DirectResults, MaxResults) ELSE {<<>>})
    /\ tpc = (CASE entry = "load_test" -> "start" [] entry = "helpers" -> "map" [] OTHER -> "analyze")
    /\ validated_rows = <<>>
    /\ exec_log = <<>>
    /\ logged = <<>>
    /\ stages = <<>>
    /\ texc = NoExc

\* load_test, lines 31-34
LoadTestCheckPath ==
    /\ entry = "load_test" /\ tpc = "start"
    /\ IF csv_exists
       THEN /\ tpc' = "load"
            /\ texc' = texc
       ELSE /\ tpc' = "done"
            /\ texc' = Wrapped(Exc("CSVFileNotFoundException",
                                   "Specification CSV file not found"))
    /\ UNCHANGED <<entry, csv_exists, csv, df, validated_rows, result_list, exec_log, logged, stages>>
    /\ UNCHANGED <<upsertVars, fnVars>>

\* load_test, lines 36-41
LoadTestLoadCsv ==
    /\ entry = "load_test" /\ tpc = "load"
    /\ df' = load_test_case_cross_reference_table(csv)
    /\ IF df' = <<>>
       THEN /\ tpc' = "done"
            /\ texc' = Wrapped(Exc("NoRowsValidatedException",
                                   "No rows found in the test specification DataFrame."))
       ELSE /\ tpc' = "map_call"
            /\ texc' = texc
    /\ UNCHANGED <<entry, csv_exists, csv, validated_rows, result_list, exec_log, logged, stages>>
    /\ UNCHANGED <<upsertVars, fnVars>>

\* load_test, lines 56-58: map_query_and_validate_test_case_data takes four
\* arguments (helper lines 260-265) and is called with three, so the call
\* raises TypeError before the function body runs
LoadTestMapCall ==
    /\ entry = "load_test" /\ tpc = "map_call"
    /\ tpc' = "done"
    /\ texc' = Wrapped(Exc("TypeError",
                           "missing 1 required positional argument: 'snowflake_credentials'"))
    /\ UNCHANGED <<entry, csv_exists, csv, df, validated_rows, result_list, exec_log, logged, stages>>
    /\ UNCHANGED <<upsertVars, fnVars>>

\* A plausible other version: a defective row is skipped, not raised.
MapRow_SkipDefective ==
    /\ entry = "helpers" /\ tpc = "map"
    /\ LET done == Len(SelectSeq(stages, LAMBDA st : st = "template lookup"))
           row == df[done + 1] IN
       /\ done < Len(df)
       /\ stages' = stages \o <<"template lookup", "placeholder substitution", "row validation">>
       /\ validated_rows' = IF row.defect = "none" THEN Append(validated_rows, row)
                            ELSE validated_rows
       /\ tpc' = IF done + 1 = Len(df) THEN "log" ELSE "map"
    /\ UNCHANGED <<entry, csv_exists, csv, df, result_list, exec_log, logged, texc>>
    /\ UNCHANGED <<upsertVars, fnVars>>

\* map_query_and_validate_test_case_data, lines 287-334: one row of the loop
MapRow ==
    /\ entry = "helpers" /\ tpc = "map"
    /\ Len(validated_rows) < Len(df)
    /\ LET row == df[Len(validated_rows) + 1] IN
       IF row.defect = "none"
       THEN /\ validated_rows' = Append(validated_rows, row)
            /\ stages' = stages \o <<"template lookup", "placeholder substitution", "row validation">>
            /\ tpc' = IF Len(validated_rows') = Len(df) THEN "log" ELSE "map"
            /\ texc' = texc
       ELSE /\ texc' = Leaves(DefectException(row.defect))
            /\ tpc' = "done"
            /\ UNCHANGED <<validated_rows, stages>>
    /\ UNCHANGED <<entry, csv_exists, csv, df, result_list, exec_log, logged>>
    /\ UNCHANGED <<upsertVars, fnVars>>

\* map_query_and_validate_test_case_data on an empty frame, line 336
MapNothing ==
    /\ entry = "helpers" /\ tpc = "map"
    /\ df = <<>>
    /\ tpc' = "log"
    /\ UNCHANGED <<entry, csv_exists, csv, df, validated_rows, result_list, exec_log, logged, stages, texc>>
    /\ UNCHANGED <<upsertVars, fnVars>>

\* the driver's loop (load_test, lines 63-65) around log_validated_row
\* (lines 483-629); exec_log records that the row's execution was started
LogValidatedRow ==
    /\ entry = "helpers" /\ tpc = "log"
    /\ Len(result_list) < Len(validated_rows)
    /\ LET i == Len(result_list) + 1
           got == log_validated_row(i, validated_rows[i].outcome) IN
       /\ exec_log' = Append(exec_log, i)
       /\ result_list' = Append(result_list, got.returned)
       /\ logged' = Append(logged, got.entry)
       /\ stages' = stages \o <<"query execution", "classification">>
    /\ UNCHANGED <<entry, tpc, csv_exists, csv, df, validated_rows, texc>>
    /\ UNCHANGED <<upsertVars, fnVars>>

\* the loop is over: line 67
LogDone ==
    /\ entry = "helpers" /\ tpc = "log"
    /\ Len(result_list) = Len(validated_rows)
    /\ tpc' = "analyze"
    /\ UNCHANGED <<entry, csv_exists, csv, df, validated_rows, result_list, exec_log, logged, stages, texc>>
    /\ UNCHANGED <<upsertVars, fnVars>>

\* analyze_and_log_results, lines 632-698
Analyze ==
    /\ tpc = "analyze"
    /\ texc' = Leaves(analyze_and_log_results(result_list))
    /\ stages' = Append(stages, "aggregation")
    /\ tpc' = "done"
    /\ UNCHANGED <<entry, csv_exists, csv, df, validated_rows, result_list, exec_log, logged>>
    /\ UNCHANGED <<upsertVars, fnVars>>

(***************************************************************************)
(* Single calls of the pure functions.  A call is a record naming the      *)
(* function and holding its arguments; ret is what the function returned.  *)
(***************************************************************************)

\* Direct calls of SnowparkConnector._build_merge_sql.
BuildMergeSqlCalls ==
    [fn : {"_build_merge_sql"},
     source_table_name : {SourceTable},
     target_table_name : {TargetTable},
     join_keys : {<<"K">>, <<"K", "A">>, <<"A", "K">>},
     update_columns : {<<"A">>, <<"A", "B">>},
     insert_columns : {<<"K", "A">>},
     delete_columns : {NoneList, Some(<<>>), Some(<<"A">>), Some(<<"A", "B">>)},
     when_matched_condition : {NoneStr, "target.A <> source.A"},
     when_not_matched_condition : {NoneStr, "source.A IS NOT NULL"},
     use_when_matching_condition : BOOLEAN,
     use_when_not_matching_condition : BOOLEAN]

\* _build_merge_sql is called and returns the statement.
BuildMergeSql ==
    /\ call.fn = "_build_merge_sql"
    /\ ~fdone
    /\ ret' = build_merge_sql(call.source_table_name, call.target_table_name,
                   call.join_keys, call.update_columns, call.insert_columns,
                   call.delete_columns.val, call.when_matched_condition,
                   call.when_not_matched_condition,
                   call.use_when_matching_condition,
                   call.use_when_not_matching_condition)
    /\ fdone' = TRUE
    /\ UNCHANGED call
    /\ UNCHANGED <<upsertVars, testVars>>

(***************************************************************************)
(* Rendering of a test case row (test_framework_helper.py).  A row is a    *)
(* Python dict: a function from keys to string values.  Values arrive      *)
(* stripped of surrounding whitespace (lines 307-310).                     *)
(***************************************************************************)
\* dict.get(k, default) and d[k] = v
Get(d, k, default) == IF k \in DOMAIN d THEN d[k] ELSE default
Put(d, k, v) == (k :> v) @@ d

RECURSIVE JoinStr(_, _)
\* sep.join(parts) as one string
JoinStr(parts, sep) ==
    IF parts = <<>> THEN ""
    ELSE IF Len(parts) = 1 THEN parts[1]
         ELSE parts[1] \o sep \o JoinStr(Tail(parts), sep)

\* [x.strip() for x in s.split(",")] for the column and default value
\* lists that occur in the rows
SplitStrip(s) ==
    CASE s = "AMOUNT, QTY" -> <<"AMOUNT", "QTY">>
      [] s = "carrier_name,AMOUNT" -> <<"carrier_name", "AMOUNT">>
      [] s = "0, N/A" -> <<"0", "N/A">>
      [] OTHER -> <<s>>

\* a comparison of the test case name as it is written
UpperName_AsWritten(s) == s

\* str.upper() on the test case names that occur in the rows
UpperName(s) ==
    CASE s = "not_null_check" -> "NOT_NULL_CHECK"
      [] s = "Zero_Value_Check" -> "ZERO_VALUE_CHECK"
      [] OTHER -> s

\* '"' in col, for the column names that occur in the rows
HasQuote(col) == col \in {"\"Amt\""}

format_column(col) == IF HasQuote(col) THEN "\"" \o col \o "\"" ELSE col

FormatColumns(columns) == [i \in DOMAIN columns |-> format_column(columns[i])]

\* a choice of columns that prefers target_column_name
ColumnsOf_TargetFirst(row_dict) ==
    LET source_columns_values == Get(row_dict, "source_column_name", "")
        target_columns_values == Get(row_dict, "target_column_name", "")
    IN IF target_columns_values # "" THEN SplitStrip(target_columns_values)
       ELSE IF source_columns_values # "" THEN SplitStrip(source_columns_values)
            ELSE <<>>

\* lines 381-398: source_column_name is preferred over target_column_name
ColumnsOf(row_dict) ==
    LET source_columns_values == Get(row_dict, "source_column_name", "")
        target_columns_values == Get(row_dict, "target_column_name", "")
    IN IF source_columns_values # "" THEN SplitStrip(source_columns_values)
       ELSE IF target_columns_values # "" THEN SplitStrip(target_columns_values)
            ELSE <<>>

\* a selection that keeps the carrier columns
NumericColumns_KeepCarrier(columns) == columns

\* [col for col in columns if col not in ["carrier_name", "carrier_name_dim_id"]]
NumericColumns(columns) ==
    SelectSeqIn(columns, Range(columns) \ {"carrier_name", "carrier_name_dim_id"})

\* f"{format_column(col)}{suffix}" for every column
ColumnTerms(columns, suffix) ==
    [i \in DOMAIN columns |-> format_column(columns[i]) \o suffix]

\* lines 440-449: one term per column, the i-th default value or the first
DefaultValueTerms(columns, default_list) ==
    [i \in DOMAIN columns |->
        format_column(columns[i]) \o " = '"
        \o (IF i <= Len(default_list) THEN default_list[i] ELSE default_list[1])
        \o "'"]

\* What a function that may raise hands back: the exception or the dict.
Raises(t, m, d) == [exc |-> Exc(t, m), row |-> d]
Returns(d) == [exc |-> NoExc, row |-> d]

create_column_conditions_for_final_rendered_query(row_dict) ==
    LET columns == ColumnsOf(row_dict)
        test_case_upper == UpperName(Get(row_dict, "test_case_name", ""))
        default_values == Get(row_dict, "default_values", "")
        numeric_columns == NumericColumns(columns)
    IN CASE test_case_upper \in {"UNIQUE_CHECK", "COMBINATION_COLUMN_UNIQUE_CHECK", "ORPHAN_CHECK"} ->
              IF columns = <<>> THEN Returns(row_dict)
              ELSE Returns(Put(row_dict, "source_column_name",
                               JoinStr(FormatColumns(columns), ",")))
         [] test_case_upper = "NOT_NULL_CHECK" ->
              Returns(Put(row_dict, "not_null_condition",
                          JoinStr(ColumnTerms(columns, " IS NULL"), " OR ")))
         [] test_case_upper = "DEFAULT_VALUE_CHECK" ->
              IF default_values # "" /\ columns # <<>>
              THEN Returns(Put(row_dict, "default_value_condition",
                       JoinStr(DefaultValueTerms(columns, SplitStrip(default_values)), " OR ")))
              ELSE Returns(Put(row_dict, "default_value_condition", ""))
         [] test_case_upper = "NEGATIVE_VALUE_CHECK" ->
              IF numeric_columns = <<>>
              THEN Raises("TestCaseValidationException",
                          "NEGATIVE_VALUE_CHECK requires at least one numeric column", row_dict)
              ELSE Returns(Put(row_dict, "negative_value_condition",
                       JoinStr(ColumnTerms(numeric_columns, " < 0"), " AND ")))
         [] test_case_upper = "ZERO_VALUE_CHECK" ->
              IF numeric_columns = <<>>
              THEN Raises("TestCaseValidationException",
                          "ZERO_VALUE_CHECK requires at least one numeric column", row_dict)
              ELSE Returns(Put(row_dict, "zero_value_condition",
                       JoinStr(ColumnTerms(numeric_columns, " = 0"), " AND ")))
         [] OTHER -> Returns(row_dict)

(***************************************************************************)
(* build_final_rendered_sql_query and the per-row body of                  *)
(* map_query_and_validate_test_case_data.  A template is a sequence of     *)
(* tokens: plain text, or a name between braces.                           *)
(***************************************************************************)
Text(s) == [kind |-> "text", s |-> s]
Braces(s) == [kind |-> "braces", s |-> s]

\* the names between braces that match [A-Za-z0-9_]+
Identifiers ==
    {"not_null_condition", "zero_value_condition", "negative_value_condition",
     "default_value_condition", "carrier_name_condition", "target_table_name",
     "source_column_name", "no_such_key"}
IsIdentifier(s) == s \in Identifiers

\* the text of a token as it stands in the template
TokenText(tok) == IF tok.kind = "braces" THEN "{" \o tok.s \o "}" ELSE tok.s

\* a replacer that blanks the placeholders it has no value for
RenderPiece_BlankUnknown(tok, final_row_dict) ==
    IF tok.kind = "braces" /\ IsIdentifier(tok.s)
    THEN Get(final_row_dict, tok.s, "")
    ELSE TokenText(tok)

\* replacer (lines 216-218): str(final_row_dict.get(key, match.group(0)))
RenderPiece(tok, final_row_dict) ==
    IF tok.kind = "braces" /\ IsIdentifier(tok.s)
    THEN Get(final_row_dict, tok.s, TokenText(tok))
    ELSE TokenText(tok)

\* re.sub over the template: the pieces of the rendered query, in order
RenderPieces(template, final_row_dict) ==
    [i \in DOMAIN template |-> RenderPiece(template[i], final_row_dict)]

\* the rendered query as one string
QueryText(pieces) == JoinStr(pieces, "")

Templates ==
    { <<Text("SELECT COUNT(*) AS err_count FROM T WHERE "), Braces("not_null_condition")>>,
      <<Text("SELECT COUNT(*) FROM "), Braces("target_table_name"), Text(" WHERE "),
        Braces("no_such_key"), Text(" AND "), Braces("not_null_condition")>>,
      <<Text("SELECT COUNT(*) FROM T WHERE "), Braces("carrier_name_condition"),
        Text(" AND ("), Braces("zero_value_condition"), Braces("negative_value_condition"),
        Braces("default_value_condition"), Text(")")>>,
      <<Text("SELECT "), Braces("source_column_name"), Text(" FROM T WHERE x = '"),
        Braces("not a key"), Text("'")>> }

\* what session.table(name) followed by df.schema does
TableLookups ==
    {[kind |-> "raise", columns |-> <<>>],
     [kind |-> "schema", columns |-> <<"carrier_name", "AMOUNT">>],
     [kind |-> "schema", columns |-> <<"carrier_name_dim_id", "AMOUNT">>],
     [kind |-> "schema", columns |-> <<"carrier_name_dim_id", "carrier_name">>],
     [kind |-> "schema", columns |-> <<"AMOUNT">>]}

\* lines 184-195: the table whose schema is read
LookupTableName(d) ==
    IF /\ Get(d, "target_database_name", "") # ""
       /\ Get(d, "target_schema_name", "") # ""
       /\ Get(d, "target_table_name", "") # ""
    THEN d["target_database_name"] \o "." \o d["target_schema_name"] \o "." \o d["target_table_name"]
    ELSE d["source_database_name"] \o "." \o d["source_schema_name"] \o "." \o d["source_table_name"]

\* a resolution that looks for carrier_name_dim_id first
CarrierNameCondition_DimIdFirst(columns, carrier_name) ==
    IF "carrier_name_dim_id" \in Range(columns)
    THEN "carrier_name_dim_id = MD5('" \o carrier_name \o "')"
    ELSE IF "carrier_name" \in Range(columns)
         THEN "carrier_name = '" \o carrier_name \o "'"
         ELSE "1=1"

\* lines 199-208
CarrierNameCondition(columns, carrier_name) ==
    IF "carrier_name" \in Range(columns)
    THEN "carrier_name = '" \o carrier_name \o "'"
    ELSE IF "carrier_name_dim_id" \in Range(columns)
         THEN "carrier_name_dim_id = MD5('" \o carrier_name \o "')"
         ELSE "1=1"

NotRendered(e, d, t) == [exc |-> e, row |-> d, table |-> t, query |-> <<>>]

build_final_rendered_sql_query(final_row_dict, template, lookup) ==
    LET data_testing == final_row_dict["test_case_type"] = "DATA_TESTING"
        table == IF data_testing THEN LookupTableName(final_row_dict) ELSE NoneStr
        with_carrier ==
            IF data_testing
            THEN Put(final_row_dict, "carrier_name_condition",
                     CarrierNameCondition(lookup.columns, final_row_dict["carrier_name"]))
            ELSE final_row_dict
        enriched == create_column_conditions_for_final_rendered_query(with_carrier)
    IN IF data_testing /\ lookup.kind = "raise"
       THEN NotRendered(Exc("SnowparkSQLException", table), final_row_dict, table)
       ELSE IF enriched.exc # NoExc
            THEN NotRendered(enriched.exc, with_carrier, table)
            ELSE [exc |-> NoExc, row |-> enriched.row, table |-> table,
                  query |-> RenderPieces(template, enriched.row)]

TestCaseTypes == {"DATA_TESTING", "SINGULAR_DATA_TESTING"}

\* TestCaseMetadata(**final_row_dict): the enum and the required fields; the
\* database, schema and table fields are optional strings
TestCaseMetadataAccepts(d) ==
    /\ Get(d, "test_case_type", "") \in TestCaseTypes
    /\ {"is_enabled", "is_set"} \subseteq DOMAIN d

\* lines 303-334 for one row whose template was found
map_row(row_dict, source_database_name, target_database_name, template, lookup) ==
    LET named == Put(Put(row_dict, "source_database_name", source_database_name),
                     "target_database_name", target_database_name)
        rendered == build_final_rendered_sql_query(named, template, lookup)
    IN IF rendered.exc # NoExc THEN rendered
       ELSE IF ~TestCaseMetadataAccepts(rendered.row)
            THEN [rendered EXCEPT !.exc = Exc("TestCaseValidationException",
                                              "Validation failed for row")]
            ELSE rendered

RenderRows ==
    [test_case_type : TestCaseTypes \cup {"BOGUS"},
     test_case_name : {"NOT_NULL_CHECK", "not_null_check", "CHECK_NULLS",
                       "ZERO_VALUE_CHECK", "NEGATIVE_VALUE_CHECK",
                       "DEFAULT_VALUE_CHECK", "UNIQUE_CHECK"},
     is_enabled : {"True"},
     is_set : {"False"},
     source_schema_name : {"", "SS"},
     source_table_name : {"", "S"},
     source_column_name : {"", "AMOUNT", "AMOUNT, QTY", "carrier_name",
                           "carrier_name,AMOUNT", "\"Amt\""},
     target_schema_name : {"", "TS"},
     target_table_name : {"", "T"},
     target_column_name : {"", "AMOUNT", "AMOUNT, QTY"},
     carrier_name : {"ACME"},
     default_values : {"", "0, N/A"}]

MapRowCalls ==
    [fn : {"map_row"},
     row : RenderRows,
     source_database_name : {"SDB"},
     target_database_name : {"TDB"},
     template : Templates,
     lookup : TableLookups]

\* one row is rendered and validated
MapRowCall ==
    /\ call.fn = "map_row"
    /\ ~fdone
    /\ ret' = map_row(call.row, call.source_database_name,
                      call.target_database_name, call.template, call.lookup)
    /\ fdone' = TRUE
    /\ UNCHANGED call
    /\ UNCHANGED <<upsertVars, testVars>>

(***************************************************************************)
(* The statements of one log_validated_row call (lines 541-562).  The      *)
(* validated row holds is_set as a bool and set_params as a dict or None;  *)
(* a dict is the sequence of its (key, value) pairs in insertion order.    *)
(***************************************************************************)
\* f"SET {param} = '{value}';" for every item of the dict
generate_set_statements(params_dict) ==
    [i \in DOMAIN params_dict |->
        "SET " \o params_dict[i][1] \o " = '" \o params_dict[i][2] \o "';"]

\* None unless is_set is true and set_params is a dict
create_set_statements(is_set, set_params) ==
    IF ~is_set \/ set_params.none
    THEN NoneList
    ELSE Some(generate_set_statements(set_params.val))

\* the statements handed to the session with the test query first
StatementsOf_QueryFirst(validated_row) ==
    LET set_statements ==
            create_set_statements(validated_row.is_set, validated_row.set_params)
    IN IF validated_row.is_set /\ set_statements.val # <<>>
       THEN <<validated_row.final_rendered_sql_query>> \o set_statements.val
       ELSE <<validated_row.final_rendered_sql_query>>

\* lines 549-561: set_statements + [query] through execute_multiple_statements
\* when there are SET statements, else the query alone through execute_query
StatementsOf(validated_row) ==
    LET set_statements ==
            create_set_statements(validated_row.is_set, validated_row.set_params)
    IN IF validated_row.is_set /\ set_statements.val # <<>>
       THEN set_statements.val \o <<validated_row.final_rendered_sql_query>>
       ELSE <<validated_row.final_rendered_sql_query>>

SetParams ==
    {NoneList, Some(<<>>), Some(<<<<"TZ", "UTC">>>>),
     Some(<<<<"TZ", "UTC">>, <<"RUN_DATE", "2024-01-31">>>>)}

LogRowCalls ==
    [fn : {"log_validated_row"},
     row : [is_set : BOOLEAN,
            set_params : SetParams,
            final_rendered_sql_query : {"SELECT COUNT(*) AS err_count FROM T"}]]

\* before the with block is entered
LogRowStart ==
    [pc |-> "enter", session |-> NoneStr, queue |-> <<>>, executed |-> <<>>,
     result |-> "pending"]

\* with SnowparkConnector(...) as sq: one session for the whole block
LogRowEnter ==
    /\ call.fn = "log_validated_row"
    /\ ~fdone
    /\ ret.pc = "enter"
    /\ ret' = [ret EXCEPT !.pc = "exec", !.session = "sq",
                          !.queue = StatementsOf(call.row)]
    /\ UNCHANGED <<call, fdone>>
    /\ UNCHANGED <<upsertVars, testVars>>

\* sq.session.sql(statement).collect() of the next statement: it succeeds,
\* or it raises, which ends the call with an ERROR entry and None
LogRowExecute ==
    /\ call.fn = "log_validated_row"
    /\ ~fdone
    /\ ret.pc = "exec"
    /\ ret.queue # <<>>
    /\ \E ok \in BOOLEAN :
         LET done == [session |-> ret.session, sql |-> Head(ret.queue), ok |-> ok]
             rest == Tail(ret.queue)
         IN /\ ret' = [ret EXCEPT
                         !.executed = Append(@, done),
                         !.queue = IF ok THEN rest ELSE <<>>,
                         !.pc = IF ok /\ rest # <<>> THEN "exec" ELSE "exit",
                         !.result = IF ~ok THEN "None"
                                    ELSE IF rest = <<>> THEN "tuple" ELSE @]
            /\ fdone' = (~ok \/ rest = <<>>)
    /\ UNCHANGED call
    /\ UNCHANGED <<upsertVars, testVars>>

(***************************************************************************)
(* parse_sql_file (lines 117-163).  The file is the sequence of its        *)
(* -- START_TEST ... -- END_TEST blocks; a block is the sequence of its    *)
(* segments, one per '@' character: the word before a colon that follows   *)
(* the '@' (the tag, "" if the '@' starts no tag) and the text up to the   *)
(* next '@', as a sequence of words and whitespace.                        *)
(***************************************************************************)
Whitespace == {" ", "\n"}

RECURSIVE LStrip(_)
LStrip(text) ==
    IF text # <<>> /\ Head(text) \in Whitespace THEN LStrip(Tail(text)) ELSE text

RECURSIVE RStrip(_)
RStrip(text) ==
    IF text # <<>> /\ text[Len(text)] \in Whitespace
    THEN RStrip(SubSeq(text, 1, Len(text) - 1))
    ELSE text

\* str.strip()
Strip(text) == RStrip(LStrip(text))

\* the words that match \w+
NameWords == {"A", "B"}

Segments ==
    {[tag |-> "NAME", text |-> <<" ", "A", "\n">>],
     [tag |-> "NAME", text |-> <<" ", "B", "\n">>],
     [tag |-> "DESCRIPTION", text |-> <<" ", "nulls", "\n">>],
     [tag |-> "QUERY", text |-> <<" ", "SELECT 1", "\n">>],
     [tag |-> "QUERY", text |-> <<"\n", "SELECT $1 FROM", " ">>],
     [tag |-> "", text |-> <<"my_stage", "\n">>]}

MaxSegments == 3
MaxBlocks == 2

SqlBlocks == UNION {[1..n -> Segments] : n \in 0..MaxSegments}
SqlFiles == UNION {[1..n -> SqlBlocks] : n \in 0..MaxBlocks}

\* re.search(r"@NAME\s*:\s*(\w+)", block): the segments it can match
NameMatches(block) ==
    {i \in DOMAIN block :
        /\ block[i].tag = "NAME"
        /\ LStrip(block[i].text) # <<>>
        /\ Head(LStrip(block[i].text)) \in NameWords}

\* re.search(r"@QUERY\s*:\s*(.*?)(?=@|$)", block, re.DOTALL)
QueryMatches(block) == {i \in DOMAIN block : block[i].tag = "QUERY"}

First(S) == CHOOSE i \in S : \A j \in S : i <= j

\* lines 138-155 for one block: the mapping after the block
ParseBlock(block, name_query_mapping) ==
    IF NameMatches(block) = {} \/ QueryMatches(block) = {}
    THEN name_query_mapping
    ELSE LET test_case_name == Head(LStrip(block[First(NameMatches(block))].text))
             \* group(1) ends at the next '@', which is the end of the segment
             sql_query == Strip(block[First(QueryMatches(block))].text)
         IN Put(name_query_mapping, test_case_name, sql_query)

RECURSIVE ParseBlocks(_, _)
ParseBlocks(blocks, name_query_mapping) ==
    IF blocks = <<>> THEN name_query_mapping
    ELSE ParseBlocks(Tail(blocks), ParseBlock(Head(blocks), name_query_mapping))

parse_sql_file(readable, file) ==
    IF ~readable
    THEN [exc |-> Exc("TestCaseParseException", "Error parsing SQL file"),
          mapping |-> <<>>]
    ELSE [exc |-> NoExc, mapping |-> ParseBlocks(file, <<>>)]

ParseSqlFileCalls ==
    [fn : {"parse_sql_file"}, readable : {TRUE}, file : SqlFiles]
    \cup [fn : {"parse_sql_file"}, readable : {FALSE}, file : {<<>>}]

\* parse_sql_file is called on a path
ParseSqlFile ==
    /\ call.fn = "parse_sql_file"
    /\ ~fdone
    /\ ret' = parse_sql_file(call.readable, call.file)
    /\ fdone' = TRUE
    /\ UNCHANGED call
    /\ UNCHANGED <<upsertVars, testVars>>

(***************************************************************************)
(* The connector's life: __init__, __enter__, the operations that need a   *)
(* session, __exit__.  The environment is the framework's configuration,   *)
(* the credentials are those the connector was constructed with.           *)
(***************************************************************************)
ConnConfigs ==
    [environment : {"DEV", "TEST", "PROD"},
     password : {NoneStr, "pw"},
     authenticator : {NoneStr, "externalbrowser"}]

\* Python's all(): exactly one argument, an iterable of truth values; a
\* call with any other number of arguments raises TypeError.
py_all(argv) ==
    IF Len(argv) = 1
    THEN [exc |-> NoExc, val |-> \A i \in DOMAIN argv[1] : argv[1][i]]
    ELSE [exc |-> Exc("TypeError", "all() takes exactly one argument"), val |-> FALSE]

\* SnowparkConnector.__enter__ (lines 40-66) on a connector whose session
\* is s: the exception raised, if any, and the session afterwards.  Line 51
\* hands all() the two tests as two arguments.
__enter__(cfg, s) ==
    IF cfg.environment # "TEST"
    THEN LET missing == py_all(<<cfg.password = NoneStr, cfg.authenticator = NoneStr>>) IN
         IF missing.exc # NoExc THEN [exc |-> missing.exc, session |-> s]
         ELSE IF missing.val
         THEN [exc |-> Exc("SnowflakeCredentialException",
                           "Either password or authenticator must be provided"),
               session |-> s]
         ELSE [exc |-> NoExc, session |-> "live"]
    ELSE [exc |-> NoExc, session |-> s]

\* SnowparkConnector.__exit__ (lines 68-84): a session, if there is one, is
\* closed and forgotten.
__exit__(s) == IF s # "none" THEN "none" ELSE s

\* The check every operation starts with, and what the operation does
\* first when it passes: the first request it sends to the engine.
session_check(s, request) ==
    IF s = "none"
    THEN [exc |-> Exc("SnowflakeSessionException", "Session is not initialized"),
          sql |-> <<>>]
    ELSE [exc |-> NoExc, sql |-> <<request>>]

\* lines 182-189
set_session_variable(s) == session_check(s, "SET variable_name = 'value'")
\* lines 276-285
execute_query(s) == session_check(s, "query")
\* lines 485-498
save_as_table(s) == session_check(s, "save_as_table(table_name)")
\* lines 649-654
upsert(s) == session_check(s, "table_exists(target)")
\* lines 706-712
upsert_from_query(s) == session_check(s, "source_query")
\* lines 1033-1039
truncate_table(s) == session_check(s, "table_exists(table_name)")
\* A plausible other version: the table is dropped without a look at the
\* session.
drop_table_Unchecked(s) == [exc |-> NoExc, sql |-> <<"table_exists(table_name)">>]

\* lines 1057-1066
drop_table(s) == session_check(s, "table_exists(table_name)")
\* lines 1251-1262
execute_multiple_statements(s) == session_check(s, "statements[0]")

\* The operations that need a session, by name.
ConnOperations(s) ==
    ("execute_query" :> execute_query(s))
        @@ ("execute_multiple_statements" :> execute_multiple_statements(s))
        @@ ("save_as_table" :> save_as_table(s))
        @@ ("upsert" :> upsert(s))
        @@ ("upsert_from_query" :> upsert_from_query(s))
        @@ ("truncate_table" :> truncate_table(s))
        @@ ("drop_table" :> drop_table(s))
        @@ ("set_session_variable" :> set_session_variable(s))

\* __init__, lines 86-98: the credentials are kept, there is no session
InitConn ==
    /\ args \in ConnConfigs
    /\ session = "none"
    /\ upc = "constructed"
    /\ ops = <<>>
    /\ call = [fn |-> "__init__"]
    /\ ret = [exc |-> NoExc]
    /\ fdone = FALSE

\* `with SnowparkConnector(...) as sq`: when __enter__ raises, the block
\* is not run and __exit__ is not called
ConnEnter ==
    /\ upc = "constructed"
    /\ LET r == __enter__(args, session) IN
       /\ session' = r.session
       /\ ret' = [exc |-> r.exc]
       /\ upc' = IF r.exc = NoExc THEN "entered" ELSE "failed"
    /\ call' = [fn |-> "__enter__"]
    /\ UNCHANGED <<args, ops, fdone>>
    /\ UNCHANGED <<tables, schema, merge_sql, merge_outcome, result, raised>>
    /\ UNCHANGED testVars

\* one operation is called on the connector: before the block, inside it,
\* or after it
ConnCall ==
    /\ upc \in {"constructed", "entered", "failed", "exited"}
    /\ \E op \in DOMAIN ConnOperations(session) :
         LET r == ConnOperations(session)[op] IN
         /\ call' = [fn |-> op]
         /\ ret' = [exc |-> r.exc]
         /\ ops' = ops \o r.sql
    /\ UNCHANGED <<args, session, upc, fdone>>
    /\ UNCHANGED <<tables, schema, merge_sql, merge_outcome, result, raised>>
    /\ UNCHANGED testVars

\* the block is left, normally or by an exception
ConnExit ==
    /\ upc = "entered"
    /\ session' = __exit__(session)
    /\ call' = [fn |-> "__exit__"]
    /\ ret' = [exc |-> NoExc]
    /\ upc' = "exited"
    /\ UNCHANGED <<args, ops, fdone>>
    /\ UNCHANGED <<tables, schema, merge_sql, merge_outcome, result, raised>>
    /\ UNCHANGED testVars

(***************************************************************************)
(* SnowparkConnector.upsert_from_query (lines 690-740): the query is       *)
(* staged in a temporary table when one is named, handed to upsert as a    *)
(* DataFrame, and whatever is raised inside the try block is answered with *)
(* a FAIL result.  The upsert inside is the one modelled above, entered    *)
(* with the arguments of lines 722-728.                                    *)
(***************************************************************************)
QueryArgs ==
    [target_table_name : {TargetTable},
     source_table_name : {NoneStr},
     join_keys : {<<"K">>, <<"K", "A">>},
     update_columns : {NoneList, Some(<<"A">>)},
     insert_columns : {NoneList, Some(<<"K", "A">>)},
     delete_columns : {NoneList},
     when_matched_condition : {NoneStr},
     when_not_matched_condition : {NoneStr},
     use_when_matching_condition : {TRUE},
     use_when_not_matching_condition : {TRUE},
     source_query : {"SELECT * FROM STAGE"},
     temp_table_name : {NoneStr, "", "TMP"}]

\* lines 735-739
FailResult(a) ==
    [status |-> "FAIL", source_table |-> a.source_query,
     target_table |-> a.target_table_name]

InitQuery ==
    /\ session \in {"live", "none"}
    /\ tables \in SUBSET {TargetTable}
    /\ schema \in [source : SourceSchemas, target : TargetSchemas]
    /\ args = NoArgs
    /\ upc = "query"
    /\ ops = <<>>
    /\ merge_sql = <<>>
    /\ merge_outcome = NoOutcome
    /\ result = NoResult
    /\ raised = NoExc

\* lines 705-728: the session check, the temporary table, the call of upsert
QueryCall ==
    /\ upc = "query"
    /\ \E a \in QueryArgs :
         /\ args' = a
         /\ IF session = "none"
            THEN /\ raised' = Exc("SnowflakeSessionException", "Session is not initialized")
                 /\ upc' = "returned"
                 /\ UNCHANGED <<ops, tables, result>>
            ELSE IF a.temp_table_name \notin {NoneStr, ""}
            THEN \E out \in SaveOutcomes :
                   /\ ops' = Append(ops, "save_as_table(temp)")
                   /\ tables' = IF out = "raised" THEN tables
                                ELSE tables \cup {a.temp_table_name}
                   /\ IF out = "created"
                      THEN /\ upc' = "precheck"
                           /\ result' = result
                      ELSE /\ upc' = "returned"
                           /\ result' = FailResult(a)
                   /\ raised' = raised
            ELSE /\ upc' = "precheck"
                 /\ UNCHANGED <<ops, tables, result, raised>>
    /\ UNCHANGED <<session, schema, merge_sql, merge_outcome>>
    /\ UNCHANGED <<testVars, fnVars>>

\* lines 730-740: upsert has exited; what it raised is caught at 733, what
\* it returned is returned after the temporary table is dropped
QueryReturn ==
    /\ upc = "done"
    /\ IF raised # NoExc
       THEN /\ result' = FailResult(args)
            /\ raised' = NoExc
            /\ UNCHANGED <<ops, tables>>
       ELSE /\ IF args.temp_table_name \notin {NoneStr, ""}
               THEN /\ ops' = Append(ops, "drop(temp)")
                    /\ tables' = tables \ {args.temp_table_name}
               ELSE UNCHANGED <<ops, tables>>
            /\ UNCHANGED <<result, raised>>
    /\ upc' = "returned"
    /\ UNCHANGED <<session, schema, args, merge_sql, merge_outcome>>
    /\ UNCHANGED <<testVars, fnVars>>

(***************************************************************************)
(* datamart_utils.generate_merge_sql (lines 128-180).  The statement is a  *)
(* sequence of tokens, as for _build_merge_sql: each literal piece of the  *)
(* f-string and each joined item is one token.                             *)
(***************************************************************************)
generate_merge_sql(target, stage, columns, pk_col) ==
    IF columns = <<>> \/ pk_col = <<>>
    THEN [exc |-> Exc("ValueError", "Both columns and pk_col must be provided."),
          sql |-> <<>>]
    ELSE LET on_conditions ==
                 [i \in DOMAIN pk_col |-> "tgt." \o pk_col[i] \o " = src." \o pk_col[i]]
             update_columns == SelectSeqIn(columns, Range(columns) \ Range(pk_col))
             update_set_clause ==
                 [i \in DOMAIN update_columns |->
                     update_columns[i] \o " = src." \o update_columns[i]]
             insert_values == [i \in DOMAIN columns |-> "src." \o columns[i]]
         IN [exc |-> NoExc,
             sql |-> <<"MERGE INTO", target, "tgt", "USING", stage, "src", "ON">>
                     \o Join(on_conditions, "AND")
                     \o <<"WHEN MATCHED THEN UPDATE SET">>
                     \o Join(update_set_clause, ",")
                     \o <<"WHEN NOT MATCHED THEN INSERT", "(">>
                     \o Join(columns, ",")
                     \o <<")", "VALUES", "(">>
                     \o Join(insert_values, ",")
                     \o <<")">>]

GenerateMergeSqlCalls ==
    [fn : {"generate_merge_sql"},
     target : {"DB.SCH.TGT"},
     stage : {"DB.STG.TGT_STAGE"},
     columns : {<<>>, <<"K">>, <<"K", "A">>, <<"A", "K", "B">>, <<"K", "L">>},
     pk_col : {<<>>, <<"K">>, <<"K", "L">>, <<"L", "K">>}]

GenerateMergeSql ==
    /\ call.fn = "generate_merge_sql"
    /\ ~fdone
    /\ ret' = generate_merge_sql(call.target, call.stage, call.columns, call.pk_col)
    /\ fdone' = TRUE
    /\ UNCHANGED call
    /\ UNCHANGED <<upsertVars, testVars>>

(***************************************************************************)
(* The specifications.  Spec is one upsert call on a connector; SpecTest   *)
(* is one run of the test framework; SpecFn is one call of one function;   *)
(* SpecParse is one call of parse_sql_file; SpecConn is the life of one    *)
(* connector; SpecQuery is one upsert_from_query call.                     *)
(***************************************************************************)
IdleUpsert ==
    /\ session = "none"
    /\ tables = {}
    /\ schema = [source |-> <<>>, target |-> <<>>]
    /\ args = NoArgs
    /\ upc = "off"
    /\ ops = <<>>
    /\ merge_sql = <<>>
    /\ merge_outcome = NoOutcome
    /\ result = NoResult
    /\ raised = NoExc

IdleTest ==
    /\ entry = "none"
    /\ tpc = "off"
    /\ csv_exists = FALSE
    /\ csv = <<>>
    /\ df = <<>>
    /\ validated_rows = <<>>
    /\ result_list = <<>>
    /\ exec_log = <<>>
    /\ logged = <<>>
    /\ stages = <<>>
    /\ texc = NoExc

IdleFn ==
    /\ call = [fn |-> "none"]
    /\ ret = <<>>
    /\ fdone = FALSE

Init == InitUpsert /\ IdleTest /\ IdleFn

Next ==
    \/ UpsertCall
    \/ UpsertPreCheck
    \/ UpsertStage
    \/ UpsertMerge
    \/ UpsertFinally

Spec == Init /\ [][Next]_vars

InitTestSpec == InitTest /\ IdleUpsert /\ IdleFn

NextTest ==
    \/ LoadTestCheckPath
    \/ LoadTestLoadCsv
    \/ LoadTestMapCall
    \/ MapRow
    \/ MapNothing
    \/ LogValidatedRow
    \/ LogDone
    \/ Analyze

SpecTest == InitTestSpec /\ [][NextTest]_vars

FnCalls ==
    BuildMergeSqlCalls \cup MapRowCalls \cup LogRowCalls \cup GenerateMergeSqlCalls

InitFn ==
    /\ call \in FnCalls
    /\ ret = IF call.fn = "log_validated_row" THEN LogRowStart ELSE <<>>
    /\ fdone = FALSE

InitFnSpec == InitFn /\ IdleUpsert /\ IdleTest

NextFn ==
    \/ BuildMergeSql
    \/ MapRowCall
    \/ LogRowEnter
    \/ LogRowExecute
    \/ GenerateMergeSql

SpecFn == InitFnSpec /\ [][NextFn]_vars

InitParse ==
    /\ call \in ParseSqlFileCalls
    /\ ret = <<>>
    /\ fdone = FALSE

InitParseSpec == InitParse /\ IdleUpsert /\ IdleTest

NextParse == ParseSqlFile

SpecParse == InitParseSpec /\ [][NextParse]_vars

InitConnSpec ==
    /\ InitConn
    /\ tables = {}
    /\ schema = [source |-> <<>>, target |-> <<>>]
    /\ merge_sql = <<>>
    /\ merge_outcome = NoOutcome
    /\ result = NoResult
    /\ raised = NoExc
    /\ IdleTest

NextConn ==
    \/ ConnEnter
    \/ ConnCall
    \/ ConnExit

SpecConn == InitConnSpec /\ [][NextConn]_vars

InitQuerySpec == InitQuery /\ IdleTest /\ IdleFn

NextQuery ==
    \/ QueryCall
    \/ UpsertPreCheck
    \/ UpsertStage
    \/ UpsertMerge
    \/ UpsertFinally
    \/ QueryReturn

SpecQuery == InitQuerySpec /\ [][NextQuery]_vars

(***************************************************************************)
(* Claims about the merge/upsert engine (checked under Spec).              *)
(***************************************************************************)

\* C1: once an upsert call that was given no source table name (so that it
\* stages the DataFrame as <target>_TRANSIENT_<suffix>) has exited, by
\* returning or by raising, also when the MERGE statement raised, the
\* staging table does not exist.
C1_StagingTableDropped ==
    (UpsertExited /\ args.source_table_name = NoneStr)
        => ~table_exists(TransientName(args.target_table_name))

\* C1 witness: the staging table was created, the MERGE raised, the call
\* has exited and the table has been dropped.
C1_Witness ==
    /\ UpsertExited
    /\ args.source_table_name = NoneStr
    /\ merge_outcome.kind = "raise"
    /\ "save_as_table(transient)" \in Range(ops)
    /\ "drop(transient)" \in Range(ops)
    /\ ~table_exists(TransientName(args.target_table_name))

\* C2 (as claimed): when the MERGE execution fails, because the engine
\* raises or because the statement returns no result rows, upsert raises
\* SnowflakeUpsertException; it never returns normally.
C2_MergeFailureRaises ==
    (UpsertExited /\ merge_outcome.kind \in {"raise", "empty"})
        => raised.type = "SnowflakeUpsertException"

\* C3: with a session, if the target table does not exist, upsert raises
\* SnowflakeTableException having created no staging table and executed no
\* MERGE: the only engine operations of the call are the existence check of
\* the target, which comes first, and the existence check of the finally
\* block.
C3_MissingTargetRaisesFirst ==
    /\ (ops # <<>>) => (ops[1] = "table_exists(target)")
    /\ (UpsertExited /\ session = "live" /\ ~table_exists(args.target_table_name))
         => /\ raised.type = "SnowflakeTableException"
            /\ ops = <<"table_exists(target)", "table_exists(transient)">>
            /\ merge_sql = <<>>
            /\ result = NoResult

\* C3 witness: a call without source table name on a missing target has
\* raised SnowflakeTableException.
C3_Witness ==
    /\ UpsertExited
    /\ session = "live"
    /\ args.source_table_name = NoneStr
    /\ ~table_exists(args.target_table_name)
    /\ raised.type = "SnowflakeTableException"

\* C10 (as claimed): for an upsert with both use_when_* flags true and
\* delete_columns=None, the MERGE statement executed holds exactly one WHEN
\* MATCHED ... THEN UPDATE clause, exactly one WHEN NOT MATCHED ... THEN
\* INSERT clause and no DELETE clause.
C10_NoDeleteClauseByDefault ==
    (/\ merge_sql # <<>>
     /\ args.use_when_matching_condition
     /\ args.use_when_not_matching_condition
     /\ args.delete_columns = NoneList)
        => /\ Count("THEN UPDATE SET", merge_sql) = 1
           /\ Count("WHEN MATCHED", merge_sql) = 1
           /\ Count("THEN INSERT", merge_sql) = 1
           /\ Count("WHEN NOT MATCHED", merge_sql) = 1
           /\ Count("THEN DELETE", merge_sql) = 0

(***************************************************************************)
(* Claims about the test framework (checked under SpecTest).               *)
(***************************************************************************)
AllStages ==
    {"row validation", "template lookup", "placeholder substitution",
     "query execution", "classification", "aggregation"}

ZeroFailures(row) ==
    row.outcome.kind = "rows"
    /\ (IF row.outcome.rows # <<>> /\ "err_count" \in DOMAIN row.outcome.rows[1]
        THEN row.outcome.rows[1]["err_count"] ELSE Len(row.outcome.rows)) = 0

HasDefect(rows) == \E i \in DOMAIN rows : rows[i].enabled /\ rows[i].defect # "none"

HasEnabled(rows) == \E i \in DOMAIN rows : rows[i].enabled

\* C4 (as claimed): for a CSV that exists, has an enabled row, whose enabled
\* rows all validate and whose queries all report zero failures, load_test
\* runs every stage of the pipeline, aggregation last, and completes
\* without raising.
C4_LoadTestCompletes ==
    (/\ entry = "load_test" /\ tpc = "done"
     /\ csv_exists /\ HasEnabled(csv) /\ ~HasDefect(csv)
     /\ \A i \in DOMAIN csv : csv[i].enabled => ZeroFailures(csv[i]))
        => /\ texc = NoExc
           /\ Range(stages) = AllStages
           /\ stages[Len(stages)] = "aggregation"

C6_EveryRowExecutedInOrder ==
    (/\ entry \in {"load_test", "helpers"} /\ tpc = "done"
     /\ df # <<>> /\ ~HasDefect(df))
        => exec_log = [i \in 1..Len(df) |-> i]

\* C7: analyze_and_log_results raises OneOrMoreTestCasesFailedException if
\* and only if at least one result has status FAIL; results that errored
\* (None), with no FAIL among them, do not make it raise.
C7_RaisesIffSomeFail ==
    (tpc = "done" /\ "aggregation" \in Range(stages))
        => ((texc.type = "OneOrMoreTestCasesFailedException")
              <=> (\E i \in DOMAIN result_list :
                      result_list[i].kind = "tuple" /\ result_list[i].status = "FAIL"))

\* C7 witness: one FAIL among five PASS has raised.
C7_Witness ==
    /\ tpc = "done"
    /\ texc.type = "OneOrMoreTestCasesFailedException"
    /\ Len(result_list) = 6
    /\ Cardinality({i \in DOMAIN result_list : result_list[i] = ResultTuple(0, "FAIL", 5)}) = 1
    /\ Cardinality({i \in DOMAIN result_list : result_list[i] = ResultTuple(0, "PASS", 0)}) = 5

\* C8: for a row whose query executes without exception, failure_count is
\* the err_count of the first result row when the result has an err_count
\* column, otherwise the number of result rows; the status is PASS exactly
\* when failure_count is zero, and FAIL otherwise.
C8_FailureCountAndStatus ==
    (entry = "helpers")
        => \A i \in DOMAIN result_list :
              LET out == validated_rows[i].outcome
                  r == result_list[i] IN
              (out.kind = "rows")
                 => /\ r.kind = "tuple"
                    /\ r.failure_count =
                          (IF out.rows # <<>> /\ "err_count" \in DOMAIN out.rows[1]
                           THEN out.rows[1]["err_count"] ELSE Len(out.rows))
                    /\ r.status \in {"PASS", "FAIL"}
                    /\ (r.status = "PASS") <=> (r.failure_count = 0)

\* C8 witness: a result set whose first row has err_count=5 was reported as
\* FAIL with failure_count 5.
C8_Witness ==
    /\ entry = "helpers"
    /\ \E i \in DOMAIN result_list :
          /\ validated_rows[i].outcome.rows = <<("err_count" :> 5)>>
          /\ result_list[i] = ResultTuple(i, "FAIL", 5)

\* The rows map_query_and_validate_test_case_data gets through before the
\* first defective one.
RECURSIVE BeforeFirstDefect(_)
BeforeFirstDefect(rows) ==
    IF rows = <<>> \/ Head(rows).defect # "none" THEN <<>>
    ELSE <<Head(rows)>> \o BeforeFirstDefect(Tail(rows))

\* C9: if an enabled row has a structural failure, the run aborts at that
\* row: it ends by raising, the rows after it are not looked at, and no
\* test query of any row, of the rows rendered before it either, is ever
\* executed.
C9_StructuralFailureAborts ==
    (entry \in {"load_test", "helpers"} /\ (HasDefect(df) \/ (csv_exists /\ HasDefect(csv))))
        => /\ exec_log = <<>>
           /\ (tpc = "done" => texc # NoExc)
           /\ (entry = "helpers" /\ tpc = "done" => validated_rows = BeforeFirstDefect(df))

\* C9 witness: a row was rendered and validated, the next one failed a
\* structural check, and the run has ended without any query executed.
C9_Witness ==
    /\ entry = "helpers" /\ tpc = "done"
    /\ Len(validated_rows) >= 1
    /\ Len(validated_rows) < Len(df)
    /\ texc.type = "SQLTemplateNotFoundException"
    /\ exec_log = <<>>

\* The defect of the first defective row ("none" if no row has one).
FirstDefect(rows) ==
    LET n == Len(BeforeFirstDefect(rows))
    IN IF n < Len(rows) THEN rows[n + 1].defect ELSE "none"

\* C17 (as claimed): if the first failing enabled row is one whose
\* test_case_name has no block in the SQL template file named by its
\* query_file_path, processing of the suite fails with
\* SQLTemplateNotFoundException.
C17_MissingTemplateNotFound ==
    (/\ entry \in {"load_test", "helpers"}
     /\ tpc = "done"
     /\ FirstDefect(df) = "no_template_for_name")
        => texc.type = "SQLTemplateNotFoundException"

\* C18 (as claimed): the caller of load_test observes
\* CSVFileNotFoundException when the CSV path does not exist and
\* NoRowsValidatedException when the CSV has no enabled rows.
C18_CallerSeesSpecificTypes ==
    (entry = "load_test" /\ tpc = "done")
        => /\ ~csv_exists => texc.type = "CSVFileNotFoundException"
           /\ (csv_exists /\ ~HasEnabled(csv))
                => texc.type = "NoRowsValidatedException"

\* C18 (amended): load_test fails in both cases, and the caller observes
\* LoadTestException carrying the message of the CSVFileNotFoundException,
\* respectively NoRowsValidatedException, raised inside load_test.
C18_CallerSeesLoadTestException ==
    (entry = "load_test" /\ tpc = "done")
        => /\ ~csv_exists
                => texc = Exc("LoadTestException", "Specification CSV file not found")
           /\ (csv_exists /\ ~HasEnabled(csv))
                => texc = Exc("LoadTestException",
                              "No rows found in the test specification DataFrame.")

\* C18 witness: load_test has ended on a CSV that exists and has rows, none
\* of them enabled.
C18_Witness ==
    /\ entry = "load_test" /\ tpc = "done"
    /\ csv_exists
    /\ csv # <<>>
    /\ ~HasEnabled(csv)
    /\ texc.type = "LoadTestException"

(***************************************************************************)
(* Claims about the single functions (checked under SpecFn; C20 under      *)
(* SpecParse).                                                             *)
(***************************************************************************)
Returned(f) == fdone /\ call.fn = f

\* The tokens of stmt from the first occurrence of tok on (<<>> if absent).
TailFrom(tok, stmt) ==
    IF tok \in Range(stmt)
    THEN LET i == CHOOSE k \in DOMAIN stmt :
                      /\ stmt[k] = tok
                      /\ \A j \in 1..(k - 1) : stmt[j] # tok
         IN SubSeq(stmt, i, Len(stmt))
    ELSE <<>>

\* C11 (as claimed): with use_when_not_matching_condition true and a
\* predicate P, the clause built is WHEN NOT MATCHED AND <P> THEN INSERT
\* (<insert columns>) VALUES (<source.col ...>), so the text P is part of the
\* statement; with no predicate the clause has no AND part.
C11_PredicateInInsertClause ==
    (Returned("_build_merge_sql") /\ call.use_when_not_matching_condition)
        => LET clause == TailFrom("WHEN NOT MATCHED", ret)
               P == call.when_not_matched_condition
           IN /\ clause # <<>>
              /\ (P = NoneStr) => (clause[2] = "THEN INSERT")
              /\ (P # NoneStr) =>
                    /\ clause[2] = "AND"
                    /\ P \in Range(clause)
                    /\ "THEN INSERT" \in Range(clause)

\* C12 (as claimed): a non-empty delete_columns [c1..cn] gives exactly one
\* clause WHEN NOT MATCHED BY SOURCE AND (source.c1 IS NULL OR ... OR
\* source.cn IS NULL) THEN DELETE, one term per column in the given order,
\* with balanced parentheses; an empty or None delete_columns gives no
\* DELETE clause.
C12_DeleteClauseWellFormed ==
    Returned("_build_merge_sql")
        => IF call.delete_columns.val # <<>>
           THEN /\ Count("THEN DELETE", ret) = 1
                /\ Count("WHEN NOT MATCHED BY SOURCE", ret) = 1
                /\ TailFrom("WHEN NOT MATCHED BY SOURCE", ret)
                     = <<"WHEN NOT MATCHED BY SOURCE", "AND", "(">>
                       \o Join(DeleteConditions(call.delete_columns.val), "OR")
                       \o <<")", "THEN DELETE">>
                /\ Count("(", ret) = Count(")", ret)
           ELSE /\ Count("THEN DELETE", ret) = 0
                /\ Count("WHEN NOT MATCHED BY SOURCE", ret) = 0

\* C13 (as claimed): every statement _build_merge_sql returns holds a WHEN
\* MATCHED (update) clause or a WHEN NOT MATCHED (insert) clause, whatever
\* the two use_when_* flags are; a request for neither is rejected.
C13_UpdateOrInsertClause ==
    Returned("_build_merge_sql")
        => \/ "WHEN MATCHED" \in Range(ret)
           \/ "WHEN NOT MATCHED" \in Range(ret)

NotNullTemplate ==
    <<Text("SELECT COUNT(*) AS err_count FROM T WHERE "), Braces("not_null_condition")>>

\* the row's column list is [AMOUNT]
ColumnListIsAmount(row) ==
    \/ row.source_column_name = "AMOUNT"
    \/ row.source_column_name = "" /\ row.target_column_name = "AMOUNT"

RenderedNotNull(names) ==
    (/\ Returned("map_row")
     /\ ret.exc = NoExc
     /\ call.row.test_case_name \in names
     /\ call.template = NotNullTemplate
     /\ ColumnListIsAmount(call.row))
        => /\ QueryText(ret.query)
                = "SELECT COUNT(*) AS err_count FROM T WHERE AMOUNT IS NULL"
           /\ TokenText(Braces("not_null_condition")) \notin Range(ret.query)

\* C14 (as claimed): for a test case named CHECK_NULLS with the template
\* SELECT COUNT(*) AS err_count FROM T WHERE {not_null_condition} and the
\* column list [AMOUNT], the rendered query is SELECT COUNT(*) AS err_count
\* FROM T WHERE AMOUNT IS NULL and holds no {not_null_condition} placeholder.
C14_CheckNullsRendered == RenderedNotNull({"CHECK_NULLS"})

\* C14 (amended): the same holds for a test case named NOT_NULL_CHECK, in
\* any letter case, which is the name the not-null derivation is keyed on;
\* for a test case named CHECK_NULLS nothing is derived and the placeholder
\* stays in the rendered query.
C14_NotNullCheckRendered ==
    /\ RenderedNotNull({"NOT_NULL_CHECK", "not_null_check"})
    /\ (/\ Returned("map_row")
        /\ ret.exc = NoExc
        /\ call.row.test_case_name = "CHECK_NULLS"
        /\ call.template = NotNullTemplate)
          => QueryText(ret.query)
               = "SELECT COUNT(*) AS err_count FROM T WHERE {not_null_condition}"

\* C14 witness: a row named not_null_check with target column AMOUNT has been
\* rendered to the expected query.
C14_Witness ==
    /\ Returned("map_row")
    /\ ret.exc = NoExc
    /\ call.row.test_case_name = "not_null_check"
    /\ call.template = NotNullTemplate
    /\ call.row.source_column_name = ""
    /\ call.row.target_column_name = "AMOUNT"
    /\ QueryText(ret.query) = "SELECT COUNT(*) AS err_count FROM T WHERE AMOUNT IS NULL"

\* C15: rendering replaces every {identifier} placeholder whose identifier
\* is a key of the enriched row dictionary by that key's value, leaves every
\* other placeholder verbatim and leaves the text outside placeholders
\* unchanged; the enriched dictionary has every key of the row.
C15_PlaceholdersReplaced ==
    (Returned("map_row") /\ ret.exc = NoExc)
        => /\ DOMAIN call.row \subseteq DOMAIN ret.row
           /\ Len(ret.query) = Len(call.template)
           /\ \A i \in DOMAIN call.template :
                LET tok == call.template[i]
                IN IF tok.kind = "text" THEN ret.query[i] = tok.s
                   ELSE IF tok.s \in Identifiers /\ tok.s \in DOMAIN ret.row
                        THEN ret.query[i] = ret.row[tok.s]
                        ELSE ret.query[i] = "{" \o tok.s \o "}"

\* C15 witness: a rendered query in which one placeholder was replaced by a
\* row field, one by a derived condition and one, without key, was left.
C15_Witness ==
    /\ Returned("map_row")
    /\ ret.exc = NoExc
    /\ Len(call.template) = 6
    /\ QueryText(ret.query)
         = "SELECT COUNT(*) FROM T WHERE {no_such_key} AND AMOUNT IS NULL OR QTY IS NULL"

\* a (database, schema, table) triple of the row is fully populated
TriplePopulated(d, side) ==
    /\ Get(d, side \o "_database_name", "") # ""
    /\ Get(d, side \o "_schema_name", "") # ""
    /\ Get(d, side \o "_table_name", "") # ""

ExactlyOneTriple(d) == TriplePopulated(d, "target") # TriplePopulated(d, "source")

\* C19 (as claimed): a row is accepted only if exactly one of its target and
\* source triples is fully populated; any other row raises
\* TestCaseValidationException and no table name is built for it.
C19_ExactlyOneTripleOrRejected ==
    Returned("map_row")
        => /\ (ret.exc = NoExc) => ExactlyOneTriple(ret.row)
           /\ ~ExactlyOneTriple(ret.row)
                => /\ ret.exc.type = "TestCaseValidationException"
                   /\ ret.table = NoneStr

\* the SET statements a row calls for: one per entry of a non-empty mapping
\* when is_set is true, none otherwise
ExpectedSets(row) ==
    IF row.is_set /\ ~row.set_params.none
    THEN [i \in DOMAIN row.set_params.val |->
            "SET " \o row.set_params.val[i][1] \o " = '"
            \o row.set_params.val[i][2] \o "';"]
    ELSE <<>>

ExecutedSql == [i \in DOMAIN ret.executed |-> ret.executed[i].sql]

IsPrefix(a, b) == Len(a) <= Len(b) /\ a = SubSeq(b, 1, Len(a))

HasBothTags(block) ==
    /\ \E i \in DOMAIN block : block[i].tag = "NAME"
    /\ \E i \in DOMAIN block : block[i].tag = "QUERY"

BlockName(block) ==
    Head(LStrip(block[First({i \in DOMAIN block : block[i].tag = "NAME"})].text))

RECURSIVE UpToNextTag(_)
\* the text of the leading segments that start no tag, each with its '@'
UpToNextTag(segments) ==
    IF segments = <<>> \/ Head(segments).tag # "" THEN <<>>
    ELSE <<"@">> \o Head(segments).text \o UpToNextTag(Tail(segments))

\* the text from @QUERY: to the next @-prefixed tag or the end of the block
CompleteQuery(block) ==
    LET q == First({i \in DOMAIN block : block[i].tag = "QUERY"})
    IN Strip(block[q].text \o UpToNextTag(SubSeq(block, q + 1, Len(block))))

\* C20 (as claimed): parse_sql_file returns a mapping whose names are those
\* of the blocks that have both an @NAME: and an @QUERY: tag, a block
\* lacking either contributing nothing, and that maps the name of each such
\* block (the last one of that name) to its complete, whitespace-trimmed
\* query text, which runs from @QUERY: to the next @-prefixed tag or to the
\* end of the block.
C20_CompleteQueryPerBlock ==
    (Returned("parse_sql_file") /\ call.readable)
        => LET file == call.file
               complete == {i \in DOMAIN file : HasBothTags(file[i])}
           IN /\ ret.exc = NoExc
              /\ DOMAIN ret.mapping = {BlockName(file[i]) : i \in complete}
              /\ \A i \in complete :
                    (\A j \in complete : j > i => BlockName(file[j]) # BlockName(file[i]))
                        => ret.mapping[BlockName(file[i])] = CompleteQuery(file[i])

\* the condition the claim gives for a table with the columns cols
ExpectedCarrierCondition(cols, carrier) ==
    IF "carrier_name" \in cols THEN "carrier_name = '" \o carrier \o "'"
    ELSE IF "carrier_name_dim_id" \in cols
         THEN "carrier_name_dim_id = MD5('" \o carrier \o "')"
         ELSE "1=1"

CarrierConditionSet(types) ==
    (/\ Returned("map_row")
     /\ ret.exc = NoExc
     /\ call.row.test_case_type \in types)
        => /\ "carrier_name_condition" \in DOMAIN ret.row
           /\ ret.row["carrier_name_condition"]
                = ExpectedCarrierCondition(Range(call.lookup.columns),
                                           call.row.carrier_name)

FieldColumns(field) ==
    CASE field = "" -> <<>>
      [] field = "AMOUNT, QTY" -> <<"AMOUNT", "QTY">>
      [] field = "carrier_name,AMOUNT" -> <<"carrier_name", "AMOUNT">>
      [] OTHER -> <<field>>

\* a column as it is written in a condition: a name that holds a double
\* quote is wrapped in double quotes
SqlName(col) == IF col = "\"Amt\"" THEN "\"\"Amt\"\"" ELSE col

RECURSIVE Conjunction(_, _, _)
\* <c1><op><sep><c2><op>...
Conjunction(cols, op, sep) ==
    IF cols = <<>> THEN ""
    ELSE SqlName(Head(cols)) \o op
         \o (IF Len(cols) = 1 THEN "" ELSE sep \o Conjunction(Tail(cols), op, sep))

NotNullRows ==
    /\ Returned("map_row")
    /\ ret.exc = NoExc
    /\ call.row.test_case_name \in {"NOT_NULL_CHECK", "not_null_check"}

\* C22 (as claimed): for a row named NOT_NULL_CHECK, not_null_condition is
\* c1 IS NULL OR ... OR cn IS NULL over the row's target columns, in order.
C22_NotNullOverTargetColumns ==
    NotNullRows
        => ret.row["not_null_condition"]
             = Conjunction(FieldColumns(call.row.target_column_name), " IS NULL", " OR ")

\* C22 (amended): the condition runs over the columns of source_column_name
\* when that field is not empty, and over the target columns only when it is.
C22_NotNullOverRowColumns ==
    NotNullRows
        => ret.row["not_null_condition"]
             = Conjunction(IF call.row.source_column_name # ""
                           THEN FieldColumns(call.row.source_column_name)
                           ELSE FieldColumns(call.row.target_column_name),
                           " IS NULL", " OR ")

\* C22 witness: a row with target columns [AMOUNT, QTY] and source column
\* AMOUNT was rendered with the condition over the source column.
C22_Witness ==
    /\ NotNullRows
    /\ call.row.source_column_name = "AMOUNT"
    /\ call.row.target_column_name = "AMOUNT, QTY"
    /\ ret.row["not_null_condition"] = "AMOUNT IS NULL"

\* the row's columns other than the carrier columns
NonCarrierColumns(row) ==
    SelectSeqIn(FieldColumns(IF row.source_column_name # "" THEN row.source_column_name
                             ELSE row.target_column_name),
                {"AMOUNT", "QTY", "\"Amt\""})

\* C23: for NEGATIVE_VALUE_CHECK (ZERO_VALUE_CHECK) the derived condition is
\* the AND-conjunction of <col> < 0 (<col> = 0) over the row's columns other
\* than carrier_name and carrier_name_dim_id, in order; if no column remains
\* TestCaseValidationException is raised and no condition is produced.
C23_NumericConditions ==
    (/\ Returned("map_row")
     /\ call.row.test_case_name \in {"NEGATIVE_VALUE_CHECK", "ZERO_VALUE_CHECK"}
     \* the schema lookup of a DATA_TESTING row did not raise
     /\ ret.exc.type # "SnowparkSQLException")
        => LET negative == call.row.test_case_name = "NEGATIVE_VALUE_CHECK"
               key == IF negative THEN "negative_value_condition"
                      ELSE "zero_value_condition"
               cols == NonCarrierColumns(call.row)
           IN IF cols = <<>>
              THEN /\ ret.exc.type = "TestCaseValidationException"
                   /\ key \notin DOMAIN ret.row
                   /\ ret.query = <<>>
              ELSE /\ ret.exc.type \in {"none", "TestCaseValidationException"}
                   /\ (ret.exc # NoExc) => (call.row.test_case_type = "BOGUS")
                   /\ ret.row[key]
                        = Conjunction(cols, IF negative THEN " < 0" ELSE " = 0", " AND ")

\* C23 witness: NEGATIVE_VALUE_CHECK over [carrier_name, AMOUNT] gave
\* AMOUNT < 0.
C23_Witness ==
    /\ Returned("map_row")
    /\ call.row.test_case_name = "NEGATIVE_VALUE_CHECK"
    /\ call.row.source_column_name = "carrier_name,AMOUNT"
    /\ ret.exc = NoExc
    /\ ret.row["negative_value_condition"] = "AMOUNT < 0"

WhenTokens == {"WHEN MATCHED", "WHEN NOT MATCHED", "WHEN NOT MATCHED BY SOURCE"}

RECURSIVE UntilWhen(_)
\* the leading tokens of stmt that come before its first WHEN token
UntilWhen(stmt) ==
    IF stmt = <<>> \/ Head(stmt) \in WhenTokens THEN <<>>
    ELSE <<Head(stmt)>> \o UntilWhen(Tail(stmt))

\* the tokens between the first tok of stmt and the next WHEN token
ClauseAfter(tok, stmt) ==
    IF tok \in Range(stmt) THEN UntilWhen(Tail(TailFrom(tok, stmt))) ELSE <<>>

\* items[1] sep items[2] sep ... items[n], as tokens
Separated(items, sep) ==
    [i \in 1..(2 * Len(items) - 1) |->
        IF i % 2 = 1 THEN items[(i + 1) \div 2] ELSE sep]

\* C24: for join_keys [k1..kn] the ON clause of the statement consists of
\* exactly n terms target.ki = source.ki joined by AND, in the order given.
C24_OnClause ==
    Returned("_build_merge_sql")
        => /\ Count("ON", ret) = 1
           /\ ClauseAfter("ON", ret)
                = Separated([i \in DOMAIN call.join_keys |->
                                "target." \o call.join_keys[i]
                                \o " = source." \o call.join_keys[i]], "AND")

\* C24 witness: a statement was built for the keys [A, K].
C24_Witness ==
    /\ Returned("_build_merge_sql")
    /\ call.join_keys = <<"A", "K">>
    /\ ClauseAfter("ON", ret) = <<"target.A = source.A", "AND", "target.K = source.K">>

\* C25: in the statement an upsert executes, an update_columns of None
\* stands for the source columns that are target columns and no join keys,
\* in source column order, and an insert_columns of None for the source
\* columns that are target columns (source [A,B,C,K], target [A,B,K], join
\* keys [K]: update [A,B]).
C25_DefaultColumns ==
    (merge_sql # <<>>)
        => LET in_target == SelectSeqIn(schema.source, Range(schema.target))
               upd == SelectSeqIn(schema.source,
                                  Range(schema.target) \ Range(args.join_keys))
           IN /\ (args.update_columns = NoneList /\ args.use_when_matching_condition)
                   => ClauseAfter("THEN UPDATE SET", merge_sql)
                        = Separated([i \in DOMAIN upd |->
                                        upd[i] \o " = source." \o upd[i]], ",")
              /\ (args.insert_columns = NoneList /\ args.use_when_not_matching_condition)
                   => ClauseAfter("THEN INSERT", merge_sql)
                        = <<"(">> \o Separated(in_target, ",") \o <<")", "VALUES", "(">>
                          \o Separated([i \in DOMAIN in_target |->
                                           "source." \o in_target[i]], ",")
                          \o <<")">>

\* C25 witness: the statement for source [A,B,C,K], target [A,B,K] and join
\* keys [K] updates A and B.
C25_Witness ==
    /\ merge_sql # <<>>
    /\ schema = [source |-> <<"A", "B", "C", "K">>, target |-> <<"A", "B", "K">>]
    /\ args.join_keys = <<"K">>
    /\ args.update_columns = NoneList
    /\ args.insert_columns = NoneList
    /\ ClauseAfter("THEN UPDATE SET", merge_sql)
         = <<"A = source.A", ",", "B = source.B">>
    /\ "THEN INSERT" \in Range(merge_sql)

(***************************************************************************)
(* Claims about the connector's life (checked under SpecConn).             *)
(***************************************************************************)

\* the connector has just left __enter__, by returning or by raising
Entered == call.fn = "__enter__"

NoCredentials == args.password = NoneStr /\ args.authenticator = NoneStr

\* C26: in a non-TEST environment __enter__ raises
\* SnowflakeCredentialException exactly when the credentials have neither a
\* password nor an authenticator, and otherwise creates a session and
\* returns the connector; in the TEST environment it creates no session and
\* returns the connector.
C26_EnterCreatesSession ==
    Entered =>
        IF args.environment # "TEST"
        THEN IF NoCredentials
             THEN ret.exc.type = "SnowflakeCredentialException" /\ session = "none"
             ELSE ret.exc = NoExc /\ session = "live" /\ upc = "entered"
        ELSE ret.exc = NoExc /\ session = "none" /\ upc = "entered"

\* C29: the session is usable only inside the context manager: __exit__
\* leaves the session None, whether there was one or not, and before
\* __enter__ as after __exit__ each of
\* execute_query, execute_multiple_statements, save_as_table, upsert,
\* upsert_from_query, truncate_table, drop_table and set_session_variable
\* raises SnowflakeSessionException and sends nothing to the engine.
C29_NoSessionNoSql ==
    [][/\ upc' = "exited" => session' = "none"
       /\ \A s \in {"none", "live"} : __exit__(s) = "none"
       /\ (ConnCall /\ upc \in {"constructed", "exited"}) =>
              /\ call'.fn \in DOMAIN ConnOperations(session)
              /\ ret'.exc.type = "SnowflakeSessionException"
              /\ ops' = ops]_vars

C29_Witness ==
    /\ upc = "exited"
    /\ call.fn = "upsert_from_query"
    /\ ret.exc.type = "SnowflakeSessionException"
    /\ ops = <<>>

(***************************************************************************)
(* Claims about upsert_from_query (checked under SpecQuery).               *)
(***************************************************************************)

\* upsert_from_query has exited: by raising, or by returning result
QueryExited == upc = "returned"

HasTempTable == args.temp_table_name \notin {NoneStr, ""}

\* C27: with an initialized session upsert_from_query never raises and
\* never returns None: it returns an UpsertResult, SUCCESS with the merge
\* counts when the merge succeeded, FAIL with the source query and the
\* target table when staging, the target pre-check or the merge failed.
C27_AlwaysAnUpsertResult ==
    (QueryExited /\ session = "live") =>
        /\ raised = NoExc
        /\ result # NoResult
        /\ IF merge_outcome.kind = "rows"
           THEN /\ result.status = "SUCCESS"
                /\ result.records_inserted
                     = Counter(merge_outcome.rows[1], "number of rows inserted")
                /\ result.records_updated
                     = Counter(merge_outcome.rows[1], "number of rows updated")
           ELSE result = FailResult(args)

\* C28: when upsert_from_query was given a temp_table_name, the temporary
\* table does not exist once the call has returned, whether the upsert
\* inside succeeded or failed.
C28_TempTableDropped ==
    (QueryExited /\ HasTempTable /\ "table_exists(target)" \in Range(ops)) =>
        args.temp_table_name \notin tables

(***************************************************************************)
(* Claims about generate_merge_sql (checked under SpecFn).                 *)
(***************************************************************************)

\* the tokens of stmt after its first token from and before the next to
Between(from, to, stmt) ==
    LET rest == Tail(TailFrom(from, stmt)) IN
    IF to \in Range(rest)
    THEN SubSeq(rest, 1, Len(rest) - Len(TailFrom(to, rest)))
    ELSE rest

\* C30: generate_merge_sql raises ValueError when columns or pk_col is
\* empty; for every other input the statement's ON clause has one
\* tgt.k = src.k term per primary-key column joined by AND, its UPDATE SET
\* list is not empty and assigns exactly the columns not in pk_col, and its
\* INSERT lists all columns in the given order.
C30_MergeStatement ==
    Returned("generate_merge_sql") =>
        IF call.columns = <<>> \/ call.pk_col = <<>>
        THEN ret.exc.type = "ValueError"
        ELSE LET updated == SelectSeqIn(call.columns,
                                        Range(call.columns) \ Range(call.pk_col))
                 set_list == Between("WHEN MATCHED THEN UPDATE SET",
                                     "WHEN NOT MATCHED THEN INSERT", ret.sql)
             IN /\ ret.exc = NoExc
                /\ Between("ON", "WHEN MATCHED THEN UPDATE SET", ret.sql)
                     = Separated([i \in DOMAIN call.pk_col |->
                                     "tgt." \o call.pk_col[i]
                                     \o " = src." \o call.pk_col[i]], "AND")
                /\ set_list # <<>>
                /\ set_list
                     = Separated([i \in DOMAIN updated |->
                                     updated[i] \o " = src." \o updated[i]], ",")
                /\ Between("(", ")", ret.sql) = Separated(call.columns, ",")

====
